---- MODULE Spec2Model ----
(***************************************************************************)
(* Model of the ECB foreign-exchange ETL job:                              *)
(*   src/cloud_functions/utils/commons.py   fetch_ecb_data_for_ytd,        *)
(*                                          transform_to_fact_table,       *)
(*                                          load_to_bigquery               *)
(*   src/cloud_functions/fetch_ecb_data_for_ytd/main.py   etl_fx_function *)
(*   src/main.py   the HTTP (year-to-date) and the event (daily) triggers  *)
(*                                                                         *)
(* Two specifications:                                                     *)
(*   SpecT  applies transform_to_fact_table to a bounded family of input   *)
(*          tables (complete tables, tables with a missing record, a zero  *)
(*          rate, a duplicated record, the empty table);                   *)
(*   Spec   runs one trigger invocation step by step: fetch, transform,    *)
(*          the trigger's empty check, its environment check, the load.    *)
(*                                                                         *)
(* Rates are Python floats.  They are modelled as binary floating-point    *)
(* numbers m * 2^e with a Precision-bit significand and round-to-nearest-  *)
(* even division, plus NaN (the value pandas puts in a pivot cell that has *)
(* no record).  Rates are non-negative and stay far from the exponent      *)
(* limits of binary64, so neither sign nor overflow is modelled.           *)
(***************************************************************************)
EXTENDS Integers, Sequences, FiniteSets, TLC

VARIABLES trigger, env, pc, result_e, df_base_rates, df_fact, outcome,
          upstreamCalls, transformCalls, sinkCalls

vars == <<trigger, env, pc, result_e, df_base_rates, df_fact, outcome,
          upstreamCalls, transformCalls, sinkCalls>>

---------------------------------------------------------------------------
(* Bounds of the model *)

\* Significand width of the modelled floats (binary64 has 53 bits).
Precision == 6

\* Number of distinct exchange dates an input table or a payload may hold.
MaxDates == 2

\* Number of records of a complete table that an input of SpecT may alter.
MaxEdits == 1

---------------------------------------------------------------------------
(* Floats *)

RECURSIVE Pow2(_)
Pow2(n) == IF n = 0 THEN 1 ELSE 2 * Pow2(n - 1)

NaN == [k |-> "nan", m |-> 0, e |-> 0]
Zero == [k |-> "num", m |-> 0, e |-> 0]
\* The outcome of a float division whose divisor is 0 (ZeroDivisionError).
ZeroDivision == [k |-> "ZeroDivisionError", m |-> 0, e |-> 0]

\* n * 2^e for an integer 0 < n < 2^Precision, normalised so that
\* 2^(Precision-1) <= m < 2^Precision.
RECURSIVE Norm(_, _)
Norm(n, e) ==
    IF n >= Pow2(Precision - 1) THEN [k |-> "num", m |-> n, e |-> e]
    ELSE Norm(2 * n, e - 1)

\* float(n / 2^s) of a value the payload holds exactly.
Dyadic(n, s) == IF n = 0 THEN Zero ELSE Norm(n, 0 - s)

One == Dyadic(1, 0)

IsNum(x) == x.k = "num"
\* Python's x == 0 (False for NaN).
IsZero(x) == x.k = "num" /\ x.m = 0

\* Round-to-nearest-even of the integer quotient n / d.
RoundDiv(n, d) ==
    LET q == n \div d
        r == n % d
    IN  IF 2 * r > d \/ (2 * r = d /\ q % 2 = 1) THEN q + 1 ELSE q

\* The significand may round up to 2^Precision.
Renorm(m, e) ==
    IF m = Pow2(Precision) THEN [k |-> "num", m |-> Pow2(Precision - 1), e |-> e + 1]
    ELSE [k |-> "num", m |-> m, e |-> e]

\* Python's x / y on floats: the correctly rounded quotient; NaN when an
\* operand is NaN; ZeroDivisionError when the divisor is 0.
\* (The row that iterrows yields has dtype object, so its cells are Python
\* floats; the guards of lines 157 and 162 keep a zero divisor away from
\* either kind of float.)
FDiv(x, y) ==
    IF x.k = "ZeroDivisionError" \/ y.k = "ZeroDivisionError" THEN ZeroDivision
    ELSE IF x.k = "nan" \/ y.k = "nan" THEN NaN
    ELSE IF y.m = 0 THEN ZeroDivision
    ELSE IF x.m = 0 THEN Zero
    ELSE IF x.m >= y.m
         THEN Renorm(RoundDiv(x.m * Pow2(Precision - 1), y.m),
                     x.e - y.e - (Precision - 1))
         ELSE Renorm(RoundDiv(x.m * Pow2(Precision), y.m),
                     x.e - y.e - Precision)

---------------------------------------------------------------------------
(* Configuration: commons.py lines 9-10 *)

TARGET_CURRENCIES == <<"NOK", "EUR", "SEK", "PLN", "RON", "DKK", "CZK">>
BASE_CURRENCY == "EUR"

Universe == {TARGET_CURRENCIES[i] : i \in 1..Len(TARGET_CURRENCIES)}
NCur == Len(TARGET_CURRENCIES)

\* A variant that enumerates permutations(TARGET_CURRENCIES, 2): no pair
\* (A, A).
currency_pairsPermutations ==
    SelectSeq([p \in 1..(NCur * NCur) |->
                  <<TARGET_CURRENCIES[((p - 1) \div NCur) + 1],
                    TARGET_CURRENCIES[((p - 1) % NCur) + 1]>>],
              LAMBDA pr : pr[1] # pr[2])

\* list(product(TARGET_CURRENCIES, TARGET_CURRENCIES)): the first component
\* varies slowest.
currency_pairs ==
    [p \in 1..(NCur * NCur) |->
        <<TARGET_CURRENCIES[((p - 1) \div NCur) + 1],
          TARGET_CURRENCIES[((p - 1) % NCur) + 1]>>]

---------------------------------------------------------------------------
(* DataFrames of base rates: sequences of records                          *)
(*   [exchange_date, base_currency, quote_currency, rate]                  *)
(* Dates are numbered 1..MaxDates in calendar order.                       *)

BaseRateRecord(d, c, r) ==
    [exchange_date |-> d, base_currency |-> BASE_CURRENCY,
     quote_currency |-> c, rate |-> r]

RECURSIVE SortedSeq(_)
SortedSeq(S) ==
    IF S = {} THEN <<>>
    ELSE LET lo == CHOOSE x \in S : \A y \in S : x <= y
         IN  <<lo>> \o SortedSeq(S \ {lo})

DatesOf(df) == {df[i].exchange_date : i \in 1..Len(df)}
ColumnsOf(df) == {df[i].quote_currency : i \in 1..Len(df)}

\* DataFrame.pivot raises ValueError when two records share index and column.
HasDuplicates(df) ==
    \E i, j \in 1..Len(df) :
        /\ i # j
        /\ df[i].exchange_date = df[j].exchange_date
        /\ df[i].quote_currency = df[j].quote_currency

\* The pivoted cell: the record's rate, NaN when the table has no record.
Cell(df, d, c) ==
    IF \E i \in 1..Len(df) : df[i].exchange_date = d /\ df[i].quote_currency = c
    THEN df[CHOOSE i \in 1..Len(df) :
                df[i].exchange_date = d /\ df[i].quote_currency = c].rate
    ELSE NaN

\* df_base_rates.pivot(index='exchange_date', columns='quote_currency',
\* values='rate').reset_index(): one row per date, in date order.
pivot(df) ==
    [index |-> SortedSeq(DatesOf(df)),
     columns |-> ColumnsOf(df),
     cell |-> [d \in DatesOf(df) |-> [c \in ColumnsOf(df) |-> Cell(df, d, c)]]]

---------------------------------------------------------------------------
(* transform_to_fact_table *)

\* A variant without the zero guard.
cross_rateUnguarded(rate_eur_vs_base, rate_eur_vs_quote) ==
    FDiv(rate_eur_vs_quote, rate_eur_vs_base)

\* A variant that forgets the division by the base leg.
cross_rateNoDivision(rate_eur_vs_base, rate_eur_vs_quote) ==
    IF IsZero(rate_eur_vs_base) THEN Zero ELSE rate_eur_vs_quote

\* Lines 157-160: the cross rate of a pair, with the zero guard.
cross_rate(rate_eur_vs_base, rate_eur_vs_quote) ==
    IF IsZero(rate_eur_vs_base) THEN Zero
    ELSE FDiv(rate_eur_vs_quote, rate_eur_vs_base)

\* A variant that copies the rate instead of inverting it.
rate_inverse_ofCopied(rate) ==
    IF ~IsZero(rate) THEN rate ELSE Zero

\* Line 162: rate_inverse = 1.0 / rate if rate != 0 else 0.0
rate_inverse_of(rate) ==
    IF ~IsZero(rate) THEN FDiv(One, rate) ELSE Zero

\* Lines 147-173: the record appended for one pair of one pivot row.  The
\* load_timestamp field, the wall clock at the append, is left out.
FactRecord(row, exchange_date, base, quote) ==
    LET rate == cross_rate(row[base], row[quote])
    IN  [exchange_date |-> exchange_date,
         base_currency |-> base,
         quote_currency |-> quote,
         rate |-> rate,
         rate_inverse |-> rate_inverse_of(rate),
         data_source |-> "ECB"]

\* Lines 144-173: every pivot row in index order, every pair in product order.
final_records(df_pivot) ==
    LET np == Len(currency_pairs)
    IN  [n \in 1..(Len(df_pivot.index) * np) |->
            LET d == df_pivot.index[((n - 1) \div np) + 1]
                p == currency_pairs[((n - 1) % np) + 1]
            IN  FactRecord(df_pivot.cell[d], d, p[1], p[2])]

EmptyDataFrame == [kind |-> "DataFrame", rows |-> <<>>, exc |-> "", pivoted |-> FALSE]
Raised(exc, pivoted) == [kind |-> "raise", rows |-> <<>>, exc |-> exc, pivoted |-> pivoted]

transform_to_fact_table(df) ==
    IF Len(df) = 0 THEN EmptyDataFrame
    ELSE IF HasDuplicates(df) THEN Raised("ValueError: duplicate entries", TRUE)
    ELSE LET df_pivot == pivot(df)
         IN  IF BASE_CURRENCY \notin df_pivot.columns
             THEN Raised("ValueError: base currency missing", TRUE)
             ELSE IF \E p \in 1..Len(currency_pairs) :
                        \/ currency_pairs[p][1] \notin df_pivot.columns
                        \/ currency_pairs[p][2] \notin df_pivot.columns
             THEN Raised("KeyError", TRUE)
             ELSE LET recs == final_records(df_pivot)
                  IN  IF \E n \in 1..Len(recs) :
                            \/ recs[n].rate.k = "ZeroDivisionError"
                            \/ recs[n].rate_inverse.k = "ZeroDivisionError"
                      THEN Raised("ZeroDivisionError", TRUE)
                      ELSE [kind |-> "DataFrame", rows |-> recs, exc |-> "",
                            pivoted |-> TRUE]

---------------------------------------------------------------------------
(* Input tables of SpecT *)

\* The rate the upstream source quotes for currency c on date d, a value
\* that a float holds exactly: NOK 11.5, SEK 11, PLN 4.25, RON 5, DKK 7.5,
\* CZK 25 on the first date, one significand step more on each later date.
ECBRate(c, d) ==
    CASE c = "EUR" -> One
      [] c = "NOK" -> Dyadic(23 + (d - 1), 1)
      [] c = "SEK" -> Dyadic(11 + (d - 1), 0)
      [] c = "PLN" -> Dyadic(17 + (d - 1), 2)
      [] c = "RON" -> Dyadic(5 + (d - 1), 0)
      [] c = "DKK" -> Dyadic(15 + (d - 1), 1)
      [] c = "CZK" -> Dyadic(25 + (d - 1), 0)

\* One record per currency of the universe for each of the dates 1..n.
CompleteTable(n) ==
    [i \in 1..(n * NCur) |->
        LET d == ((i - 1) \div NCur) + 1
            c == TARGET_CURRENCIES[((i - 1) % NCur) + 1]
        IN  BaseRateRecord(d, c, ECBRate(c, d))]

\* Rates an edit may put in a record: 0 and 3.5.
EditRates == {Zero, Dyadic(7, 1)}

EditOps ==
    {[op |-> "drop", rate |-> Zero], [op |-> "dup", rate |-> Zero]}
    \cup {[op |-> "set", rate |-> r] : r \in EditRates}

RemoveAt(df, i) ==
    [j \in 1..(Len(df) - 1) |-> IF j < i THEN df[j] ELSE df[j + 1]]

ApplyEdit(df, i, o) ==
    CASE o.op = "drop" -> RemoveAt(df, i)
      [] o.op = "dup" -> Append(df, df[i])
      [] o.op = "set" -> [df EXCEPT ![i].rate = o.rate]

\* Any record may be dropped or duplicated; the rate of a record of a
\* non-base currency may be changed (the EUR/EUR record always has rate 1.0).
EditsAt(df, i) ==
    {o \in EditOps : o.op = "set" => df[i].quote_currency # BASE_CURRENCY}

\* The tables obtained from df by at most k edits of records at positions
\* hi and below, higher positions first.
RECURSIVE Edited(_, _, _)
Edited(df, k, hi) ==
    {df} \cup
    (IF k = 0 THEN {}
     ELSE UNION {UNION {Edited(ApplyEdit(df, i, o), k - 1, i - 1) :
                           o \in EditsAt(df, i)} : i \in 1..hi})

InputTables ==
    UNION {Edited(CompleteTable(n), MaxEdits, n * NCur) : n \in 0..MaxDates}

NoFrame == [kind |-> "none", rows |-> <<>>, exc |-> "", pivoted |-> FALSE]
NoOutcome == [kind |-> "none", status |-> 0, exc |-> "", message |-> ""]
NoResult == [kind |-> "none", df |-> <<>>, status |-> 0, message |-> ""]

InitT ==
    /\ trigger = "none"
    /\ env = {}
    /\ pc = "input"
    /\ result_e = NoResult
    /\ df_base_rates \in InputTables
    /\ df_fact = NoFrame
    /\ outcome = NoOutcome
    /\ upstreamCalls = 0
    /\ transformCalls = 0
    /\ sinkCalls = 0

\* df_fact = transform_to_fact_table(df_base_rates)
TransformT ==
    /\ pc = "input"
    /\ df_fact' = transform_to_fact_table(df_base_rates)
    /\ transformCalls' = transformCalls + 1
    /\ pc' = "transformed"
    /\ UNCHANGED <<trigger, env, result_e, df_base_rates, outcome,
                   upstreamCalls, sinkCalls>>

NextT == TransformT

SpecT == InitT /\ [][NextT]_vars

---------------------------------------------------------------------------
(* The upstream response and fetch_ecb_data_for_ytd *)

NonBase == SelectSeq(TARGET_CURRENCIES, LAMBDA c : c # BASE_CURRENCY)

\* A response is a failure of the GET (a transport error, a 4xx/5xx status,
\* a body that is not JSON) or a JSON document:
\*   hasDataSets  whether data['dataSets'] exists
\*   series       data['dataSets'][0]['series'], in document order; attr is
\*                series_info['attributes'][-4], observations the pairs
\*                (time index, observation_value[0])
\*   curValues    data['structure']['dimensions']['series'][1]['values']
\*   dateValues   data['structure']['dimensions']['observation'][0]['values']
\* Indices are 0-based as in the source.
Num(x) == [t |-> "num", v |-> x]
NotNumeric == [t |-> "str", v |-> Zero]
Null == [t |-> "null", v |-> Zero]

\* Per date, the currencies the source has an observation for: all of them,
\* none, or all but one.
DatePatterns == {"all", "none"} \cup {NonBase[i] : i \in 1..Len(NonBase)}

Observed(pat, c, d) == pat[d] = "all" \/ (pat[d] \notin {"all", "none", c})

Defects == {"none", "no_dataSets", "series_index", "time_index",
            "rate_text", "rate_null"}

SeriesOf(pat, c, i) ==
    [attr |-> i - 1,
     observations |->
        [n \in 1..Len(SortedSeq({d \in DOMAIN pat : Observed(pat, c, d)})) |->
            LET d == SortedSeq({dd \in DOMAIN pat : Observed(pat, c, dd)})[n]
            IN  [time_index |-> d - 1, value |-> Num(ECBRate(c, d))]]]

\* The source sends no series for a currency without observations.
WellFormed(pat) ==
    [hasDataSets |-> TRUE,
     series |-> SelectSeq([i \in 1..Len(NonBase) |-> SeriesOf(pat, NonBase[i], i)],
                          LAMBDA s : Len(s.observations) > 0),
     curValues |-> NonBase,
     dateValues |-> [d \in DOMAIN pat |-> d]]

\* A defect strikes the first series, or its first observation.
Payload(pat, defect) ==
    LET data == WellFormed(pat)
    IN  IF defect = "no_dataSets" THEN [data EXCEPT !.hasDataSets = FALSE]
        ELSE IF defect = "none" \/ Len(data.series) = 0 THEN data
        ELSE CASE defect = "series_index" ->
                    [data EXCEPT !.series[1].attr = Len(data.curValues)]
               [] defect = "time_index" ->
                    [data EXCEPT !.series[1].observations[1].time_index =
                                      Len(data.dateValues)]
               [] defect = "rate_text" ->
                    [data EXCEPT !.series[1].observations[1].value = NotNumeric]
               [] defect = "rate_null" ->
                    [data EXCEPT !.series[1].observations[1].value = Null]

Responses ==
    {[kind |-> "RequestException", data |-> WellFormed([d \in 1..0 |-> "none"])]}
    \cup {[kind |-> "json", data |-> Payload(pat, defect)] :
            pat \in UNION {[1..n -> DatePatterns] : n \in 0..MaxDates},
            defect \in Defects}

\* Lines 67-82: what handling one observation raises, "" when nothing.
ObservationError(data, o) ==
    IF o.time_index >= Len(data.dateValues) THEN "IndexError"
    ELSE IF o.value.t = "str" THEN "ValueError"
    ELSE IF o.value.t = "null" THEN "TypeError"
    ELSE ""

RECURSIVE FirstError(_)
FirstError(errs) ==
    IF Len(errs) = 0 THEN ""
    ELSE IF Head(errs) # "" THEN Head(errs)
    ELSE FirstError(Tail(errs))

\* Lines 61-82: what handling one series raises.
SeriesError(data, s) ==
    IF s.attr >= Len(data.curValues) THEN "IndexError"
    ELSE FirstError([n \in 1..Len(s.observations) |->
                        ObservationError(data, s.observations[n])])

\* Lines 55-82: the first exception of the normalisation loop.
ParseError(data) ==
    IF ~data.hasDataSets THEN "KeyError"
    ELSE FirstError([i \in 1..Len(data.series) |-> SeriesError(data, data.series[i])])

RECURSIVE Flatten(_)
Flatten(seqs) ==
    IF Len(seqs) = 0 THEN <<>> ELSE Head(seqs) \o Flatten(Tail(seqs))

\* Lines 58-82: one record per series and observation.
normalized_data(data) ==
    Flatten([i \in 1..Len(data.series) |->
        LET s == data.series[i]
        IN  [n \in 1..Len(s.observations) |->
                BaseRateRecord(data.dateValues[s.observations[n].time_index + 1],
                               data.curValues[s.attr + 1],
                               s.observations[n].value.v)]])

\* Lines 85-92: one EUR/EUR record of rate 1.0 per date fetched.  The code
\* iterates a set; the pivot does not depend on the order of the records.
WithBaseRecords(recs) ==
    recs \o [n \in 1..Cardinality(DatesOf(recs)) |->
                BaseRateRecord(SortedSeq(DatesOf(recs))[n], BASE_CURRENCY, One)]

ErrorTuple(message) ==
    [kind |-> "tuple", df |-> <<>>, status |-> 500, message |-> message]

\* The whole function: a DataFrame, the tuple (error dict, 500) for a
\* RequestException or a KeyError/IndexError/ValueError of the
\* normalisation, or an exception that no except clause catches.
fetch_ecb_data_for_ytd(response) ==
    IF response.kind = "RequestException"
    THEN ErrorTuple("Error al acceder a la API del BCE")
    ELSE LET err == ParseError(response.data)
         IN  IF err \in {"KeyError", "IndexError", "ValueError"}
             THEN ErrorTuple("Error al procesar el JSON SDMX del BCE")
             ELSE IF err # ""
             THEN [kind |-> "raise", df |-> <<>>, status |-> 0, message |-> err]
             ELSE [kind |-> "DataFrame",
                   df |-> WithBaseRecords(normalized_data(response.data)),
                   status |-> 0, message |-> ""]

---------------------------------------------------------------------------
(* The triggers of src/main.py, etl_fx_function and load_to_bigquery *)

EnvVars == {"GCP_PROJECT_ID", "BIGQUERY_DATASET_ID", "BIGQUERY_TABLE_ID"}

Triggers == {"etl_fx_load_all_year_data_function", "update_today_ebc_data_function"}
IsHttp == trigger = "etl_fx_load_all_year_data_function"

Return(status, message) ==
    [kind |-> "return", status |-> status, exc |-> "", message |-> message]
Raise(exc, message) ==
    [kind |-> "raise", status |-> 0, exc |-> exc, message |-> message]

\* df.empty of a DataFrame.
IsEmptyFrame(f) == f.kind = "DataFrame" /\ Len(f.rows) = 0

\* What the sink does with one invocation's table.
SinkOutcomes == {"client_error", "append_error", "appended"}

\* A variant that appends a second time after a failed append.
load_to_bigqueryRetry(f, sink) ==
    IF IsEmptyFrame(f)
    THEN [status |-> "skipped", message |-> "DataFrame is empty.",
          rows_inserted |-> 0, appends |-> 0]
    ELSE IF sink = "client_error"
    THEN [status |-> "error",
          message |-> "Error al inicializar el cliente de BigQuery",
          rows_inserted |-> 0, appends |-> 0]
    ELSE IF sink = "append_error"
    THEN [status |-> "error",
          message |-> "Error fatal durante la carga en BigQuery",
          rows_inserted |-> 0, appends |-> 2]
    ELSE [status |-> "success",
          message |-> "Data successfully loaded to BigQuery.",
          rows_inserted |-> Len(f.rows), appends |-> 1]

\* load_to_bigquery: the dictionary returned and the appends attempted.
load_to_bigquery(f, sink) ==
    IF IsEmptyFrame(f)
    THEN [status |-> "skipped", message |-> "DataFrame is empty.",
          rows_inserted |-> 0, appends |-> 0]
    ELSE IF sink = "client_error"
    THEN [status |-> "error",
          message |-> "Error al inicializar el cliente de BigQuery",
          rows_inserted |-> 0, appends |-> 0]
    ELSE IF sink = "append_error"
    THEN [status |-> "error",
          message |-> "Error fatal durante la carga en BigQuery",
          rows_inserted |-> 0, appends |-> 1]
    ELSE [status |-> "success",
          message |-> "Data successfully loaded to BigQuery.",
          rows_inserted |-> Len(f.rows), appends |-> 1]

Init ==
    /\ trigger \in Triggers
    /\ env \in SUBSET EnvVars
    /\ pc = "start"
    /\ result_e = NoResult
    /\ df_base_rates = <<>>
    /\ df_fact = NoFrame
    /\ outcome = NoOutcome
    /\ upstreamCalls = 0
    /\ transformCalls = 0
    /\ sinkCalls = 0

\* etl_fx_function line 14: the one GET and its normalisation.  An exception
\* that fetch_ecb_data_for_ytd does not catch ends the invocation.
Fetch ==
    /\ pc = "start"
    /\ \E response \in Responses :
        LET r == fetch_ecb_data_for_ytd(response)
        IN  /\ result_e' = r
            /\ IF r.kind = "raise"
               THEN /\ outcome' = Raise(r.message, r.message)
                    /\ pc' = "done"
               ELSE /\ outcome' = outcome
                    /\ pc' = "fetched"
    /\ upstreamCalls' = upstreamCalls + 1
    /\ UNCHANGED <<trigger, env, df_base_rates, df_fact, transformCalls, sinkCalls>>

\* etl_fx_function lines 16-18: an error tuple is returned as it is.
ReturnError ==
    /\ pc = "fetched"
    /\ result_e.kind = "tuple"
    /\ df_fact' = [kind |-> "tuple", rows |-> <<>>, exc |-> result_e.message,
                   pivoted |-> FALSE]
    /\ pc' = "returned"
    /\ UNCHANGED <<trigger, env, result_e, df_base_rates, outcome,
                   upstreamCalls, transformCalls, sinkCalls>>

\* etl_fx_function lines 20-25: the transformation; what it raises ends the
\* invocation.
Transform ==
    /\ pc = "fetched"
    /\ result_e.kind = "DataFrame"
    /\ df_base_rates' = result_e.df
    /\ LET f == transform_to_fact_table(result_e.df)
       IN  /\ df_fact' = f
           /\ IF f.kind = "raise"
              THEN /\ outcome' = Raise(f.exc, f.exc)
                   /\ pc' = "done"
              ELSE /\ outcome' = outcome
                   /\ pc' = "returned"
    /\ transformCalls' = transformCalls + 1
    /\ UNCHANGED <<trigger, env, result_e, upstreamCalls, sinkCalls>>

\* A variant of the trigger that does not test df_fact.empty.
CheckEmptyOmitted ==
    /\ pc = "returned"
    /\ outcome' = outcome
    /\ pc' = "load_config"
    /\ UNCHANGED <<trigger, env, result_e, df_base_rates, df_fact,
                   upstreamCalls, transformCalls, sinkCalls>>

\* main.py lines 19-20 and 49-51: df_fact.empty.  A tuple has no such
\* attribute.
CheckEmpty ==
    /\ pc = "returned"
    /\ IF df_fact.kind = "tuple"
       THEN /\ outcome' = Raise("AttributeError",
                                "'tuple' object has no attribute 'empty'")
            /\ pc' = "done"
       ELSE IF IsEmptyFrame(df_fact)
       THEN /\ outcome' = IF IsHttp
                          THEN Return(200, "No se encontraron datos para transformar.")
                          ELSE Return(0, "None")
            /\ pc' = "done"
       ELSE /\ outcome' = outcome
            /\ pc' = "load_config"
    /\ UNCHANGED <<trigger, env, result_e, df_base_rates, df_fact,
                   upstreamCalls, transformCalls, sinkCalls>>

\* A variant that tests any([...]) instead of all([...]).
CheckEnvAny ==
    /\ pc = "load_config"
    /\ IF env = {}
       THEN /\ outcome' = Raise("ValueError", "Faltan variables de entorno")
            /\ pc' = "done"
       ELSE /\ outcome' = outcome
            /\ pc' = "load"
    /\ UNCHANGED <<trigger, env, result_e, df_base_rates, df_fact,
                   upstreamCalls, transformCalls, sinkCalls>>

\* main.py lines 24-30 and 55-61: the three identifiers are read and checked.
CheckEnv ==
    /\ pc = "load_config"
    /\ IF env # EnvVars
       THEN /\ outcome' = Raise("ValueError", "Faltan variables de entorno")
            /\ pc' = "done"
       ELSE /\ outcome' = outcome
            /\ pc' = "load"
    /\ UNCHANGED <<trigger, env, result_e, df_base_rates, df_fact,
                   upstreamCalls, transformCalls, sinkCalls>>

\* main.py lines 34-39 and 65-71: the load and its report.
Load ==
    /\ pc = "load"
    /\ \E sink \in SinkOutcomes :
        LET load_result == load_to_bigquery(df_fact, sink)
        IN  /\ sinkCalls' = sinkCalls + load_result.appends
            /\ outcome' =
                 IF load_result.status = "success"
                 THEN IF IsHttp THEN Return(200, "ETL finalizado")
                      ELSE Return(0, "None")
                 ELSE IF IsHttp THEN Return(500, load_result.message)
                      ELSE Raise("RuntimeError", load_result.message)
    /\ pc' = "done"
    /\ UNCHANGED <<trigger, env, result_e, df_base_rates, df_fact,
                   upstreamCalls, transformCalls>>

Next == Fetch \/ ReturnError \/ Transform \/ CheckEmpty \/ CheckEnv \/ Load

Spec == Init /\ [][Next]_vars

---------------------------------------------------------------------------
(* Properties of transform_to_fact_table, checked under SpecT *)

Transformed == pc = "transformed"

\* The number of records of df for currency c on date d.
RecordCount(df, d, c) ==
    Cardinality({i \in 1..Len(df) :
                    df[i].exchange_date = d /\ df[i].quote_currency = c})

\* The positions of the output rows for the pair (a, b) on date d.
RowsOf(f, d, a, b) ==
    {n \in 1..Len(f.rows) :
        /\ f.rows[n].exchange_date = d
        /\ f.rows[n].base_currency = a
        /\ f.rows[n].quote_currency = b}

RowOf(f, d, a, b) == f.rows[CHOOSE n \in RowsOf(f, d, a, b) : TRUE]

\* Every pair of the universe has exactly one row on every date of the
\* input, and there are no other rows.
OneRowPerPair(df, f) ==
    /\ f.kind = "DataFrame"
    /\ \A d \in DatesOf(df) : \A a, b \in Universe :
            Cardinality(RowsOf(f, d, a, b)) = 1
    /\ Len(f.rows) = Cardinality(DatesOf(df)) * NCur * NCur

\* C1 as stated: for a non-empty input in which every date has a record for
\* every currency of the universe, the output has exactly one row per date
\* and ordered pair, N*N rows per date.
C1_RowsWhenEveryCurrencyHasARecord ==
    (/\ Transformed
     /\ Len(df_base_rates) > 0
     /\ \A d \in DatesOf(df_base_rates) : \A c \in Universe :
            RecordCount(df_base_rates, d, c) >= 1)
    => OneRowPerPair(df_base_rates, df_fact)

\* C1 amended: for a non-empty input in which every date has exactly one
\* record for every currency of the universe, the output has exactly one
\* row per date and ordered pair (A, B), A == B included: N*N rows per date,
\* (number of dates) * N*N rows in all.
C1_RowsWhenExactlyOneRecord ==
    (/\ Transformed
     /\ Len(df_base_rates) > 0
     /\ \A d \in DatesOf(df_base_rates) : \A c \in Universe :
            RecordCount(df_base_rates, d, c) = 1)
    => OneRowPerPair(df_base_rates, df_fact)

C1_Witness ==
    /\ Transformed
    /\ Cardinality(DatesOf(df_base_rates)) = MaxDates
    /\ \A d \in DatesOf(df_base_rates) : \A c \in Universe :
            RecordCount(df_base_rates, d, c) = 1
    /\ Len(df_fact.rows) = MaxDates * NCur * NCur
    /\ \E n \in 1..Len(df_fact.rows) :
            df_fact.rows[n].base_currency = df_fact.rows[n].quote_currency

\* C2: the zero guard.  No input makes the transformation divide by zero;
\* an input without duplicates that has a record for every currency in some
\* date completes; and in every output, each date whose pivoted rate for
\* currency A is 0 has a row (A, B) for every B, A included, all of them with
\* rate 0.0 and rate_inverse 0.0.
C2_ZeroGuard ==
    Transformed =>
        /\ df_fact.exc # "ZeroDivisionError"
        /\ (/\ Len(df_base_rates) > 0
            /\ ~HasDuplicates(df_base_rates)
            /\ Universe \subseteq ColumnsOf(df_base_rates))
           => df_fact.kind = "DataFrame"
        /\ (df_fact.kind = "DataFrame" /\ Len(df_fact.rows) > 0) =>
             \A d \in DatesOf(df_base_rates) : \A a \in Universe :
                IsZero(Cell(df_base_rates, d, a)) =>
                    \A b \in Universe :
                        /\ RowsOf(df_fact, d, a, b) # {}
                        /\ \A n \in RowsOf(df_fact, d, a, b) :
                              /\ df_fact.rows[n].rate = Zero
                              /\ df_fact.rows[n].rate_inverse = Zero

C2_Witness ==
    /\ Transformed
    /\ df_fact.kind = "DataFrame"
    /\ \E d \in DatesOf(df_base_rates) : \E a \in Universe \ {BASE_CURRENCY} :
          /\ IsZero(Cell(df_base_rates, d, a))
          /\ RowOf(df_fact, d, a, BASE_CURRENCY).rate = Zero
          /\ RowOf(df_fact, d, a, a).rate_inverse = Zero

\* The input holds a record for every currency of the universe on date d.
CompleteDate(df, d) == \A c \in Universe : RecordCount(df, d, c) >= 1

\* C3 as stated: on every date of the output whose rate vector is complete,
\* the row (A, A) of every currency A has rate 1.0 and rate_inverse 1.0.
C3_IdentityForEveryVector ==
    (Transformed /\ df_fact.kind = "DataFrame") =>
        \A d \in DatesOf(df_base_rates) : \A a \in Universe :
            CompleteDate(df_base_rates, d) =>
                \A n \in RowsOf(df_fact, d, a, a) :
                    /\ df_fact.rows[n].rate = One
                    /\ df_fact.rows[n].rate_inverse = One

\* C3 amended: the row (A, A) exists for every date and currency; it has
\* rate 1.0 and rate_inverse 1.0 when the pivoted rate of A is a non-zero
\* number, and rate 0.0 and rate_inverse 0.0 when that rate is 0.
C3_IdentityUnlessZero ==
    (Transformed /\ df_fact.kind = "DataFrame" /\ Len(df_fact.rows) > 0) =>
        \A d \in DatesOf(df_base_rates) : \A a \in Universe :
            /\ RowsOf(df_fact, d, a, a) # {}
            /\ \A n \in RowsOf(df_fact, d, a, a) :
                LET v == Cell(df_base_rates, d, a)
                    r == df_fact.rows[n]
                IN  /\ (IsNum(v) /\ ~IsZero(v)) =>
                            (r.rate = One /\ r.rate_inverse = One)
                    /\ IsZero(v) => (r.rate = Zero /\ r.rate_inverse = Zero)

C3_Witness ==
    /\ Transformed
    /\ df_fact.kind = "DataFrame"
    /\ \E d \in DatesOf(df_base_rates) : \E a, b \in Universe \ {BASE_CURRENCY} :
          /\ IsZero(Cell(df_base_rates, d, a))
          /\ RowOf(df_fact, d, a, a).rate = Zero
          /\ Cell(df_base_rates, d, b) \notin {Zero, One, NaN}
          /\ RowOf(df_fact, d, b, b).rate = One
          /\ RowOf(df_fact, d, b, b).rate_inverse = One

\* |x - y| <= 4 * 2^(-Precision) * min(x, y) for positive floats x and y:
\* equal up to four units of roundoff.
Close(x, y) ==
    /\ IsNum(x) /\ IsNum(y) /\ ~IsZero(x) /\ ~IsZero(y)
    /\ LET lo == IF x.e < y.e THEN x.e ELSE y.e
           X == x.m * Pow2(x.e - lo)
           Y == y.m * Pow2(y.e - lo)
           diff == IF X > Y THEN X - Y ELSE Y - X
           least == IF X > Y THEN Y ELSE X
       IN  diff * Pow2(Precision - 2) <= least

\* C4 as stated: for every row (A, B) whose rate is a non-zero number, the
\* rate of the row (B, A) of the same date equals 1 / rate(A, B), which is
\* the rate_inverse of the row (A, B).
C4_InverseExact ==
    (Transformed /\ df_fact.kind = "DataFrame") =>
        \A n \in 1..Len(df_fact.rows) :
            LET r == df_fact.rows[n]
            IN  (IsNum(r.rate) /\ ~IsZero(r.rate)) =>
                    \A k \in RowsOf(df_fact, r.exchange_date,
                                    r.quote_currency, r.base_currency) :
                        /\ df_fact.rows[k].rate = FDiv(One, r.rate)
                        /\ df_fact.rows[k].rate = r.rate_inverse

\* C4 amended: for every row (A, B) whose rate is a non-zero number, the row
\* (B, A) of the same date exists, its rate_inverse field is the float
\* 1.0 / rate(A, B), and the rate of (B, A) equals it up to floating-point
\* rounding (a relative error of at most four units of roundoff), not
\* necessarily exactly.
C4_InverseWithinTolerance ==
    (Transformed /\ df_fact.kind = "DataFrame") =>
        \A n \in 1..Len(df_fact.rows) :
            LET r == df_fact.rows[n]
                back == RowsOf(df_fact, r.exchange_date,
                               r.quote_currency, r.base_currency)
            IN  (IsNum(r.rate) /\ ~IsZero(r.rate)) =>
                    /\ back # {}
                    /\ r.rate_inverse = FDiv(One, r.rate)
                    /\ \A k \in back : Close(df_fact.rows[k].rate, r.rate_inverse)

C4_Witness ==
    /\ Transformed
    /\ df_fact.kind = "DataFrame"
    /\ \E d \in DatesOf(df_base_rates) : \E a, b \in Universe :
          /\ a # b
          /\ IsNum(RowOf(df_fact, d, a, b).rate)
          /\ ~IsZero(RowOf(df_fact, d, a, b).rate)
          /\ RowOf(df_fact, d, b, a).rate # RowOf(df_fact, d, a, b).rate_inverse
          /\ Close(RowOf(df_fact, d, b, a).rate, RowOf(df_fact, d, a, b).rate_inverse)

\* C5: when some date of an input without duplicates has no record for a
\* non-base currency of the universe, the transformation raises and returns
\* no table.
C5_MissingCurrencyRaises ==
    (/\ Transformed
     /\ ~HasDuplicates(df_base_rates)
     /\ \E d \in DatesOf(df_base_rates) : \E c \in Universe \ {BASE_CURRENCY} :
            RecordCount(df_base_rates, d, c) = 0)
    => (df_fact.kind = "raise" /\ Len(df_fact.rows) = 0)

\* C6: when some date of an input without duplicates has no record for the
\* base currency, the transformation raises the missing-base-currency error.
C6_MissingBaseRaises ==
    (/\ Transformed
     /\ ~HasDuplicates(df_base_rates)
     /\ \E d \in DatesOf(df_base_rates) :
            RecordCount(df_base_rates, d, BASE_CURRENCY) = 0)
    => (df_fact.kind = "raise" /\ df_fact.exc = "ValueError: base currency missing")

---------------------------------------------------------------------------
(* Properties of a trigger invocation, checked under Spec *)

Done == pc = "done"
ConfigError == outcome.kind = "raise" /\ outcome.exc = "ValueError"
                /\ outcome.message = "Faltan variables de entorno"
ExtractionFailed == result_e.kind \in {"tuple", "raise"}
NonEmptyTable == df_fact.kind = "DataFrame" /\ Len(df_fact.rows) > 0

C8_ExtractionFailureSurfaced ==
    (Done /\ ExtractionFailed) =>
        /\ transformCalls = 0
        /\ sinkCalls = 0
        /\ \/ (outcome.kind = "return" /\ outcome.status = 500
               /\ outcome.message = result_e.message)
           \/ (outcome.kind = "raise" /\ outcome.message = result_e.message)

\* C9: when the extracted table is empty, the transformation returns an
\* empty table without pivoting or raising, the invocation goes on until it
\* ends, and it ends as a success (the no-data message with status 200, or
\* None) without any sink append.
C9_EmptyInputIsSuccess ==
    (result_e.kind = "DataFrame" /\ Len(result_e.df) = 0) =>
        /\ transformCalls = 1 =>
              (/\ df_fact.kind = "DataFrame"
               /\ Len(df_fact.rows) = 0
               /\ ~df_fact.pivoted)
        /\ sinkCalls = 0
        /\ ~Done => ENABLED Next
        /\ Done =>
              /\ transformCalls = 1
              /\ outcome.kind = "return"
              /\ outcome.status # 500
              /\ outcome.message \in
                    {"No se encontraron datos para transformar.", "None"}

C9_Witness ==
    /\ Done
    /\ result_e.kind = "DataFrame"
    /\ Len(result_e.df) = 0
    /\ transformCalls = 1
    /\ upstreamCalls = 1
    /\ outcome.kind = "return"
    /\ env # EnvVars

\* C10: in an invocation the upstream source is called at most once and the
\* sink append is attempted at most once, on every path; an append is only
\* attempted after the upstream call succeeded and the transformation gave a
\* non-empty table; and an invocation that has ended takes no further step.
C10_AtMostOnce ==
    /\ upstreamCalls <= 1
    /\ sinkCalls <= 1
    /\ transformCalls <= 1
    /\ sinkCalls = 1 =>
          /\ upstreamCalls = 1
          /\ result_e.kind = "DataFrame"
          /\ transformCalls = 1
          /\ NonEmptyTable
    /\ Done => ~ENABLED Next
    /\ (pc # "start") => upstreamCalls = 1

C10_Witness ==
    /\ Done
    /\ upstreamCalls = 1
    /\ sinkCalls = 1
    /\ outcome \in {Return(500, "Error fatal durante la carga en BigQuery"),
                    Raise("RuntimeError", "Error fatal durante la carga en BigQuery")}

====
